---- MODULE Spec2Model ----
(***************************************************************************)
(* Model of bot/main.py, the Aurum Orchard trading bot: the Uniswap V3     *)
(* path encoder, the minimum-output computation, the transaction           *)
(* submission primitive send_tx and the flows main / flashloan_and_arb.    *)
(*                                                                         *)
(* Bytes are integers 0..255, byte strings are sequences of bytes.  An     *)
(* address string is the sequence of its 40 hexadecimal digits (each a     *)
(* value 0..15); letter case, which is all that checksumming changes, is   *)
(* not represented.  Account addresses that are only ever compared are     *)
(* the strings "root", "seed" and "other".                                 *)
(***************************************************************************)
EXTENDS Integers, Sequences, FiniteSets, TLC

VARIABLES
    \* ---- encode_v3_path, applied on its own
    tokens,                 \* argument tokens: a sequence of address strings
    fees,                   \* argument fees: a sequence of integers
    encoded,                \* the outcome of the call, "pending" before it
    \* ---- the minimum-output computation, applied on its own
    amount_in_wei,
    premium_estimate_wei,
    safety_buffer_bps,
    min_out,                \* the value computed, 0 before the computation
    computed,               \* whether min_out has been computed
    \* ---- the process (main and everything it calls)
    pc,                     \* position of the process
    exc,                    \* "none", or the exception that ended the process
    env,                    \* the environment variables read at import
    chain,                  \* transaction count per account
    ctx,                    \* which call of send_tx is running
    tx,                     \* the tx dict of the running send_tx
    sugg,                   \* what suggest_fees returned to the running send_tx
    seen,                   \* history: the intent handed to the running send_tx
                            \* and what the transport answered to suggest_fees
    rcpt,                   \* local rcpt of flashloan_and_arb
    owner,                  \* local owner of flashloan_and_arb
    built,                  \* outcome of encode_flash_params_for_roundtrip
    profit,                 \* local profit of flashloan_and_arb
    log,                    \* history: the calls made so far, in order
    signed,                 \* history: the transactions signed so far
    \* ---- two runs of the quote-and-encode step side by side
    built2,                 \* outcome of encode_flash_params_for_roundtrip in
                            \* a second run with the same environment
    \* ---- two processes calling send_tx for the same account
    twin                    \* the account's chain state and both processes

pathVars == <<tokens, fees, encoded>>
calcVars == <<amount_in_wei, premium_estimate_wei, safety_buffer_bps, min_out,
             computed>>
procVars == <<pc, exc, env, chain, ctx, tx, sugg, seen, rcpt, owner, built, profit,
             log, signed>>
sideVars == <<built2, twin>>
vars == <<pathVars, calcVars, procVars, sideVars>>

----------------------------------------------------------------------------
(* Bounds of the model *)

MaxTokens == 3          \* longest token list and fee list handed to encode_v3_path
MaxAmount == 12         \* small borrowed amounts range over -1..MaxAmount
MaxPremium == 3         \* premium estimates range over -1..MaxPremium
MaxEvents == 2          \* most FlashCompleted events decoded from one receipt
MaxSends == 2           \* calls of send_tx by each of two concurrent processes

----------------------------------------------------------------------------
(* Addresses and byte strings *)

WETH == <<8,2,10,15,4,9,4,4,7,13,8,10,0,7,14,3,11,13,9,5,
          11,13,0,13,5,6,15,3,5,2,4,1,5,2,3,15,11,10,11,1>>
USDC == <<10,15,8,8,13,0,6,5,14,7,7,12,8,12,12,2,2,3,9,3,
          2,7,12,5,14,13,11,3,10,4,3,2,2,6,8,14,5,8,3,1>>
\* a string that is not an address: 38 hexadecimal digits
BadAddr == <<13,14,10,13,11,14,14,15,13,14,10,13,11,14,14,15,13,14,10,
             13,11,14,14,15,13,14,10,13,11,14,14,15,13,14,10,13,11,14>>

\* Web3.to_checksum_address accepts exactly the 20-byte hexadecimal strings
ValidAddr(addr) ==
    /\ Len(addr) = 40
    /\ \A i \in 1..Len(addr) : addr[i] \in 0..15

\* to_checksum: the address itself, or ValueError
to_checksum(addr) ==
    IF ValidAddr(addr) THEN [exc |-> "none", val |-> addr]
                       ELSE [exc |-> "ValueError", val |-> <<>>]

\* bytes.fromhex: two hexadecimal digits per byte
fromhex(hex) == [i \in 1..(Len(hex) \div 2) |-> 16 * hex[2*i - 1] + hex[2*i]]

\* _to20(addr), for an address to_checksum accepts
_to20(addr) == fromhex(addr)

\* int.to_bytes(3, "big") raises OverflowError outside 0..2^24-1
FeeFits(fee) == fee >= 0 /\ fee < 16777216

_fee3_le(fee) == <<fee % 256, (fee \div 256) % 256, fee \div 65536>>

_fee3(fee) == <<fee \div 65536, (fee \div 256) % 256, fee % 256>>

PathLensOkNoMin(toks, fs) == Len(fs) = Len(toks) - 1

\* the condition of the assert of encode_v3_path
PathLensOk(toks, fs) == Len(toks) >= 2 /\ Len(fs) = Len(toks) - 1

\* the for loop of encode_v3_path from its i-th iteration (i counted from 1),
\* out being the bytearray so far
RECURSIVE EncodeLoop(_, _, _, _)
EncodeLoop(toks, fs, i, out) ==
    IF i > Len(fs) THEN [exc |-> "none", ret |-> out, out |-> out]
    ELSE IF ~FeeFits(fs[i])
         THEN [exc |-> "OverflowError", ret |-> <<>>, out |-> out]
    ELSE IF i + 1 > Len(toks)
         THEN [exc |-> "IndexError", ret |-> <<>>, out |-> out \o _fee3(fs[i])]
    ELSE IF ~ValidAddr(toks[i + 1])
         THEN [exc |-> "ValueError", ret |-> <<>>, out |-> out \o _fee3(fs[i])]
    ELSE EncodeLoop(toks, fs, i + 1, out \o _fee3(fs[i]) \o _to20(toks[i + 1]))

\* encode_v3_path(tokens, fees): exc is the exception raised ("none" when
\* it returns), ret the bytes returned, out the bytearray when it ended
encode_v3_path(toks, fs) ==
    IF ~PathLensOk(toks, fs)
    THEN [exc |-> "AssertionError", ret |-> <<>>, out |-> <<>>]
    ELSE IF Len(toks) = 0
    THEN [exc |-> "IndexError", ret |-> <<>>, out |-> <<>>]
    ELSE IF ~ValidAddr(toks[1])
    THEN [exc |-> "ValueError", ret |-> <<>>, out |-> <<>>]
    ELSE EncodeLoop(toks, fs, 1, _to20(toks[1]))

----------------------------------------------------------------------------
(* The minimum output *)

Max(a, b) == IF a >= b THEN a ELSE b

MinOutNoFloorOfOne(amount, premium, bps) ==
    LET repay_target == amount + premium
    IN  repay_target + ((repay_target * bps) \div 10000)

MinOutBufferOnAmount(amount, premium, bps) ==
    LET repay_target == amount + premium
    IN  Max(repay_target + ((amount * bps) \div 10000), 1)

\* repay_target and min_out of encode_flash_params_for_roundtrip
MinOut(amount, premium, bps) ==
    LET repay_target == amount + premium
    IN  Max(repay_target + ((repay_target * bps) \div 10000), 1)

----------------------------------------------------------------------------
(* Amounts of wei.  Python integers are unbounded; an amount of wei is the  *)
(* sequence of its digits in base 10000, least significant first, without  *)
(* leading zero digits (zero is the empty sequence).                       *)

RECURSIVE WeiNorm(_)
WeiNorm(a) ==
    IF a = <<>> THEN <<>>
    ELSE IF a[Len(a)] = 0 THEN WeiNorm(SubSeq(a, 1, Len(a) - 1))
    ELSE a

RECURSIVE WeiAddCarry(_, _, _)
WeiAddCarry(a, b, c) ==
    IF a = <<>> /\ b = <<>>
    THEN IF c = 0 THEN <<>> ELSE <<c>>
    ELSE LET x == (IF a = <<>> THEN 0 ELSE Head(a))
                  + (IF b = <<>> THEN 0 ELSE Head(b)) + c
         IN  <<x % 10000>> \o WeiAddCarry(IF a = <<>> THEN <<>> ELSE Tail(a),
                                          IF b = <<>> THEN <<>> ELSE Tail(b),
                                          x \div 10000)

\* a + b
WeiAdd(a, b) == WeiAddCarry(a, b, 0)

RECURSIVE WeiMulCarry(_, _, _)
WeiMulCarry(a, m, c) ==
    IF a = <<>>
    THEN IF c = 0 THEN <<>> ELSE <<c % 10000>> \o WeiMulCarry(<<>>, m, c \div 10000)
    ELSE LET x == Head(a) * m + c
         IN  <<x % 10000>> \o WeiMulCarry(Tail(a), m, x \div 10000)

\* a * m, for a factor 0 <= m <= 10000
WeiMul(a, m) == WeiNorm(WeiMulCarry(a, m, 0))

\* a // 10_000
WeiFloorDiv10000(a) == IF a = <<>> THEN <<>> ELSE Tail(a)

\* max(a, 1)
WeiMax1(a) == IF a = <<>> THEN <<1>> ELSE a

MinOutWeiPerMille(amount, premium, bps) ==
    LET repay_target == WeiAdd(amount, premium)
    IN  WeiMax1(WeiAdd(repay_target,
                       WeiFloorDiv10000(WeiMul(repay_target, 10 * bps))))

\* repay_target and min_out of encode_flash_params_for_roundtrip, on
\* amounts of wei
MinOutWei(amount, premium, bps) ==
    LET repay_target == WeiAdd(amount, premium)
    IN  WeiMax1(WeiAdd(repay_target, WeiFloorDiv10000(WeiMul(repay_target, bps))))

\* the value of an amount of wei small enough to be an integer of the model
RECURSIVE WeiToInt(_)
WeiToInt(a) == IF a = <<>> THEN 0 ELSE Head(a) + 10000 * WeiToInt(Tail(a))

\* the amount of wei of an integer n >= 0
RECURSIVE IntToWei(_)
IntToWei(n) == IF n = 0 THEN <<>> ELSE <<n % 10000>> \o IntToWei(n \div 10000)

----------------------------------------------------------------------------
(* encode_flash_params_for_roundtrip *)

NotBuilt ==
    [exc |-> "pending", quoted |-> FALSE, params |-> <<>>, min_out |-> <<>>,
     quoted_out |-> <<>>]

BuildFailed(e, q) ==
    [exc |-> e, quoted |-> q, params |-> <<>>, min_out |-> <<>>, quoted_out |-> <<>>]

\* abi_encode(["bytes", "uint256"], [path, min_out]): the pair itself; the
\* byte layout of the ABI encoding is not represented
abi_encode(path, minimum) == <<path, minimum>>

encode_flash_params_min_from_quote(asset_in, mid_token, fee_in_to_mid, fee_mid_to_out, amount, premium, bps, quote) ==
    IF to_checksum(asset_in).exc # "none" THEN BuildFailed("ValueError", FALSE)
    ELSE IF to_checksum(mid_token).exc # "none" THEN BuildFailed("ValueError", FALSE)
    ELSE LET path == encode_v3_path(
                         <<to_checksum(asset_in).val, to_checksum(mid_token).val,
                           to_checksum(asset_in).val>>,
                         <<fee_in_to_mid, fee_mid_to_out>>)
         IN  IF path.exc # "none" THEN BuildFailed(path.exc, FALSE)
             ELSE IF ~quote.ok THEN BuildFailed("ContractLogicError", TRUE)
             ELSE [exc |-> "none", quoted |-> TRUE,
                   params |-> abi_encode(path.ret, WeiMax1(quote.amountOut)),
                   min_out |-> WeiMax1(quote.amountOut),
                   quoted_out |-> quote.amountOut]

\* encode_flash_params_for_roundtrip; quote is what the quoter's
\* quoteExactInput call answers when it is made: [ok |-> FALSE] for an
\* error, or [ok |-> TRUE, amountOut |-> ...].  quoted tells whether the
\* call was made.
encode_flash_params_for_roundtrip(asset_in, mid_token, fee_in_to_mid, fee_mid_to_out, amount, premium, bps, quote) ==
    IF to_checksum(asset_in).exc # "none" THEN BuildFailed("ValueError", FALSE)
    ELSE IF to_checksum(mid_token).exc # "none" THEN BuildFailed("ValueError", FALSE)
    ELSE LET path == encode_v3_path(
                         <<to_checksum(asset_in).val, to_checksum(mid_token).val,
                           to_checksum(asset_in).val>>,
                         <<fee_in_to_mid, fee_mid_to_out>>)
         IN  IF path.exc # "none" THEN BuildFailed(path.exc, FALSE)
             ELSE IF ~quote.ok THEN BuildFailed("ContractLogicError", TRUE)
             ELSE LET minimum == MinOutWei(amount, premium, bps)
                  IN  [exc |-> "none", quoted |-> TRUE,
                       params |-> abi_encode(path.ret, minimum),
                       min_out |-> minimum,
                       quoted_out |-> quote.amountOut]

----------------------------------------------------------------------------
(* suggest_fees and the decisions of send_tx, flashloan_and_arb and main *)

NoEnv == [ok |-> FALSE, FLASH_EXECUTOR_ADDRESS |-> FALSE, FLASH_ASSET |-> <<>>,
          FLASH_AMOUNT_WEI |-> <<>>, MIN_PROFIT_WEI |-> 0]
NoChain == [seed |-> 0, root |-> 0]
NoTx == [none |-> TRUE]
NoFees == [exc |-> "pending", max_fee |-> 0, max_priority |-> 0]
NoAnswer == [ok |-> FALSE, val |-> 0]
NoBlock == [ok |-> FALSE, hasBaseFee |-> FALSE, baseFeePerGas |-> 0]

\* the history of a send_tx call that was handed the dict intent
Seen(intent) ==
    [intent |-> intent, prio |-> NoAnswer, block |-> NoBlock, gas_price |-> NoAnswer]

NoSeen == Seen(NoTx)
NoRcpt == [status |-> 1, decodable |-> TRUE, evts |-> <<>>]

\* int(w3.to_wei("0.0000002", "ether"))
FallbackTip == 200000000

\* suggest_fees: prio is the answer to max_priority_fee, block the answer to
\* get_block("latest"), gas_price the answer to w3.eth.gas_price, which is
\* read whenever the block was fetched, being an argument of latest.get
suggest_fees(prio, block, gas_price) ==
    LET max_priority == IF prio.ok THEN prio.val ELSE FallbackTip
    IN  IF ~block.ok THEN [exc |-> "get_block", max_fee |-> 0, max_priority |-> 0]
        ELSE IF ~gas_price.ok
        THEN [exc |-> "gas_price", max_fee |-> 0, max_priority |-> 0]
        ELSE LET base == IF block.hasBaseFee THEN block.baseFeePerGas
                                             ELSE gas_price.val
             IN  [exc |-> "none", max_fee |-> base * 2 + max_priority,
                  max_priority |-> max_priority]

setdefaultOverwriting(dict, key, value) ==
    [k \in (DOMAIN dict) \cup {key} |-> IF k = key THEN value ELSE dict[k]]

\* tx.setdefault(key, value)
setdefault(dict, key, value) ==
    IF key \in DOMAIN dict THEN dict ELSE dict @@ (key :> value)

\* dict[key] = value
SetItem(dict, key, value) ==
    [k \in (DOMAIN dict) \cup {key} |-> IF k = key THEN value ELSE dict[k]]

AssignNonceUnlessPresent(dict, count) ==
    IF "nonce" \in DOMAIN dict THEN dict ELSE dict @@ ("nonce" :> count)

\* send_tx: tx["nonce"] = w3.eth.get_transaction_count(signer.address)
AssignNonce(dict, count) == SetItem(dict, "nonce", count)

SignerSeedForSplit(c) == IF c \in {"seed_to_root", "route"} THEN "seed" ELSE "root"

\* the account whose key signs in each call of send_tx
Signer(c) == IF c = "seed_to_root" THEN "seed" ELSE "root"

AfterEstimateGasIgnoringFailure(gas) == [pc |-> "tx_send", exc |-> "none"]

ReturnToRepeating(c) ==
    CASE c = "seed_to_root" -> "main_split"
      [] c = "dust_split" -> "main_flash"
      [] OTHER -> "fa_decode"

\* send_tx returns to the statement after the call named c
ReturnTo(c) ==
    CASE c = "seed_to_root" -> "main_split"
      [] c = "dust_split" -> "main_flash"
      [] c = "flash" -> "fa_decode"
      [] OTHER -> "done"

AfterBroadcastWithoutWait(c) == ReturnTo(c)

\* send_tx after send_raw_transaction: wait_for_transaction_receipt
AfterBroadcast(c) == "tx_wait"

\* send_tx after estimate_gas: its exception leaves send_tx
AfterEstimateGas(gas) ==
    IF gas.ok THEN [pc |-> "tx_send", exc |-> "none"]
              ELSE [pc |-> "raised", exc |-> "estimate_gas"]

OwnerIsRootAlways(o) == TRUE

\* flashloan_and_arb: owner != root_account.address aborts
OwnerIsRoot(o) == o = "root"

AfterBuildIgnoringFailure(e) == "fa_submit"

AfterBuildRetrying(e) == IF e = "none" THEN "fa_submit" ELSE "fa_build"

\* flashloan_and_arb: an exception of encode_flash_params_for_roundtrip is
\* caught and the function returns
AfterBuild(e) == IF e = "none" THEN "fa_submit" ELSE "done"

\* flashloan_and_arb: profit stays 0 unless process_receipt answers with a
\* non-empty list, whose last entry gives it
DecodedProfit(receipt) ==
    IF receipt.decodable /\ receipt.evts # <<>>
    THEN receipt.evts[Len(receipt.evts)]
    ELSE 0

ShouldRouteOnEqual(p, threshold) == p >= threshold

\* flashloan_and_arb: profit > MIN_PROFIT_WEI
ShouldRoute(p, threshold) == p > threshold

GoldstemCheckPassesAlways(o) == TRUE

\* main: the Goldstem owner() read; only an owner other than root returns
GoldstemCheckPasses(o) == o # "other"

----------------------------------------------------------------------------
(* Input sets *)

SeqsUpTo(S, n) == UNION {[1..k -> S] : k \in 0..n}

AddrValues == {WETH, USDC, BadAddr}
FeeValues == {500, 3000, 16777215, 16777216}
AmountValues == (-1..MaxAmount) \cup {1000000}
PremiumValues == -1..MaxPremium
BufferValues == {-30, 0, 1, 30, 999, 2000}

\* the environment: ok stands for everything main requires before its
\* first transaction (RPC_URL and a connection, both keys, GOLDSTEM_ADDRESS,
\* the ABI files); FLASH_ASSET is <<>> when unset; amounts are 0, 10^6, 10^18
EnvValues ==
    [ok : BOOLEAN,
     FLASH_EXECUTOR_ADDRESS : BOOLEAN,
     FLASH_ASSET : {<<>>, WETH, BadAddr},
     FLASH_AMOUNT_WEI : {<<>>, <<0, 100>>, <<0, 0, 0, 0, 100>>},
     MIN_PROFIT_WEI : {-1, 0, 400}]

\* answers of the transport
OwnerOutcomes == {"root", "other", "error"}
QuoteOutcomes ==
    {[ok |-> FALSE, amountOut |-> <<>>],
     [ok |-> TRUE, amountOut |-> <<0, 0, 0, 2000, 100>>],
     [ok |-> TRUE, amountOut |-> <<0, 99>>]}
PrioOutcomes == {[ok |-> FALSE, val |-> 0], [ok |-> TRUE, val |-> 10000000]}
BlockOutcomes ==
    {[ok |-> FALSE, hasBaseFee |-> FALSE, baseFeePerGas |-> 0],
     [ok |-> TRUE, hasBaseFee |-> FALSE, baseFeePerGas |-> 0],
     [ok |-> TRUE, hasBaseFee |-> TRUE, baseFeePerGas |-> 100000000]}
GasPriceOutcomes == {[ok |-> FALSE, val |-> 0], [ok |-> TRUE, val |-> 110000000]}
GasOutcomes == {[ok |-> FALSE, val |-> 0], [ok |-> TRUE, val |-> 21000]}
ProfitValues == {0, 300, 400, 500}
ReceiptOutcomes ==
    {[status |-> st, decodable |-> TRUE, evts |-> ev] :
        st \in {0, 1}, ev \in SeqsUpTo(ProfitValues, MaxEvents)}
    \cup {[status |-> st, decodable |-> FALSE, evts |-> <<>>] : st \in {0, 1}}
\* what build_transaction fills in besides the fields it is given
PrefillOutcomes ==
    {[none |-> TRUE],
     [maxFeePerGas |-> 5, maxPriorityFeePerGas |-> 1],
     [maxPriorityFeePerGas |-> 1, nonce |-> 7]}

\* the process is not running
ProcOff ==
    /\ pc = "off" /\ exc = "none" /\ env = NoEnv /\ chain = NoChain
    /\ ctx = "none" /\ tx = NoTx /\ sugg = NoFees /\ seen = NoSeen /\ rcpt = NoRcpt
    /\ owner = "unread" /\ built = NotBuilt /\ profit = 0
    /\ log = <<>> /\ signed = <<>>

Pending == [exc |-> "pending", ret |-> <<>>, out |-> <<>>]

NoTwin == [count |-> 0, mempool |-> {}, mined |-> {}, proc |-> <<>>]

SideOff == built2 = NotBuilt /\ twin = NoTwin

PathOff == tokens = <<>> /\ fees = <<>> /\ encoded = Pending

CalcOff ==
    /\ amount_in_wei = 0 /\ premium_estimate_wei = 0
    /\ safety_buffer_bps = 0 /\ min_out = 0 /\ computed = FALSE

----------------------------------------------------------------------------
(* encode_v3_path applied to every bounded argument pair *)

PathInit ==
    /\ tokens \in SeqsUpTo(AddrValues, MaxTokens)
    /\ fees \in SeqsUpTo(FeeValues, MaxTokens)
    /\ encoded = Pending
    /\ CalcOff /\ ProcOff /\ SideOff

EncodePath ==
    /\ encoded.exc = "pending"
    /\ encoded' = encode_v3_path(tokens, fees)
    /\ UNCHANGED <<tokens, fees, calcVars, procVars, sideVars>>

PathNext == EncodePath

SpecPath == PathInit /\ [][PathNext]_vars

----------------------------------------------------------------------------
(* The minimum-output computation applied to every bounded argument triple *)

CalcInit ==
    /\ amount_in_wei \in AmountValues
    /\ premium_estimate_wei \in PremiumValues
    /\ safety_buffer_bps \in BufferValues
    /\ min_out = 0 /\ computed = FALSE
    /\ PathOff /\ ProcOff /\ SideOff

ComputeMinOut ==
    /\ ~computed
    /\ min_out' = MinOut(amount_in_wei, premium_estimate_wei, safety_buffer_bps)
    /\ computed' = TRUE
    /\ UNCHANGED <<amount_in_wei, premium_estimate_wei, safety_buffer_bps,
                   pathVars, procVars, sideVars>>

CalcNext == ComputeMinOut

SpecCalc == CalcInit /\ [][CalcNext]_vars

----------------------------------------------------------------------------
(* The process: main, seed_to_root, split_via_goldstem, flashloan_and_arb  *)
(* and send_tx.  Each call to the transport is a step; what the transport  *)
(* answers is chosen among its possible answers.                           *)

\* w3.to_wei(amount_eth, "ether") for the dust amounts, and the premium guess
Dust00003 == <<0, 0, 0, 30>>
Dust00002 == <<0, 0, 0, 20>>
Dust00001 == <<0, 0, 0, 10>>
PremiumEstimateWei == <<0, 0, 5000>>

Logged(entry) == \E i \in 1..Len(log) : log[i] = entry

Count(entry) == Cardinality({i \in 1..Len(log) : log[i] = entry})

Raise(e) == pc' = "raised" /\ exc' = e

\* entering send_tx(w3, t, signer) from the call named c
CallSendTx(c, t) ==
    /\ pc' = "tx_nonce" /\ ctx' = c /\ tx' = t /\ sugg' = NoFees /\ seen' = Seen(t)
    /\ log' = Append(log, <<c, "send_tx">>)

\* seed_to_root: its tx dict
SeedToRootTx == [to |-> "root", value |-> Dust00003, from |-> "seed"]

\* split_via_goldstem: its tx dict
SplitTx(amount) == [to |-> "goldstem", value |-> amount, from |-> "root"]

ProcInit ==
    /\ pc = "main" /\ exc = "none"
    /\ env \in EnvValues
    /\ chain = [seed |-> 0, root |-> 0]
    /\ ctx = "none" /\ tx = NoTx /\ sugg = NoFees /\ seen = NoSeen /\ rcpt = NoRcpt
    /\ owner = "unread" /\ built = NotBuilt /\ profit = 0
    /\ log = <<>> /\ signed = <<>>
    /\ PathOff /\ CalcOff /\ SideOff

\* main up to the FlashExecutor binding: a missing setting, a failed
\* connection or a missing ABI file raises
Main ==
    /\ pc = "main"
    /\ IF ~env.ok THEN Raise("EnvironmentError")
       ELSE /\ pc' = IF env.FLASH_EXECUTOR_ADDRESS THEN "main_exec_owner"
                                                   ELSE "main_balances"
            /\ exc' = exc
    /\ UNCHANGED <<env, chain, ctx, tx, sugg, seen, rcpt, owner, built, profit, log, signed>>
    /\ UNCHANGED <<pathVars, calcVars, sideVars>>

\* main: the owner of the FlashExecutor is read and printed, an error too
MainExecOwner ==
    /\ pc = "main_exec_owner"
    /\ \E o \in OwnerOutcomes :
          /\ pc' = "main_balances"
          /\ log' = Append(log, <<"main", "executor.owner">>)
    /\ UNCHANGED <<exc, env, chain, ctx, tx, sugg, seen, rcpt, owner, built, profit, signed>>
    /\ UNCHANGED <<pathVars, calcVars, sideVars>>

\* main: the two get_balance reads
MainBalances ==
    /\ pc = "main_balances"
    /\ \E ok \in BOOLEAN :
          IF ok THEN pc' = "main_safety" /\ exc' = exc
                ELSE Raise("get_balance")
    /\ UNCHANGED <<env, chain, ctx, tx, sugg, seen, rcpt, owner, built, profit, log, signed>>
    /\ UNCHANGED <<pathVars, calcVars, sideVars>>

\* main: the safety check on the Goldstem owner, then seed_to_root
MainSafety ==
    /\ pc = "main_safety"
    /\ \E o \in OwnerOutcomes :
          IF GoldstemCheckPasses(o)
          THEN /\ pc' = "tx_nonce" /\ ctx' = "seed_to_root"
               /\ tx' = SeedToRootTx /\ sugg' = NoFees /\ seen' = Seen(SeedToRootTx)
               /\ log' = log \o <<<<"main", "goldstem.owner", o>>,
                                  <<"seed_to_root", "send_tx">>>>
          ELSE /\ pc' = "done"
               /\ log' = Append(log, <<"main", "goldstem.owner", o>>)
               /\ UNCHANGED <<ctx, tx, sugg, seen>>
    /\ UNCHANGED <<exc, env, chain, rcpt, owner, built, profit, signed>>
    /\ UNCHANGED <<pathVars, calcVars, sideVars>>

\* send_tx: get_transaction_count and chain_id
TxNonce ==
    /\ pc = "tx_nonce"
    /\ \E ok \in BOOLEAN :
          IF ok
          THEN /\ tx' = SetItem(AssignNonce(tx, chain[Signer(ctx)]), "chainId", 42161)
               /\ pc' = "tx_fees" /\ exc' = exc
          ELSE Raise("get_transaction_count") /\ tx' = tx
    /\ log' = Append(log, <<ctx, "get_transaction_count">>)
    /\ UNCHANGED <<env, chain, ctx, sugg, seen, rcpt, owner, built, profit, signed>>
    /\ UNCHANGED <<pathVars, calcVars, sideVars>>

\* send_tx: suggest_fees and the two setdefault calls
TxFees ==
    /\ pc = "tx_fees"
    /\ \E prio \in PrioOutcomes, block \in BlockOutcomes, gas_price \in GasPriceOutcomes :
          LET fee == suggest_fees(prio, block, gas_price)
          IN  IF fee.exc # "none"
              THEN Raise(fee.exc) /\ UNCHANGED <<tx, sugg, seen>>
              ELSE /\ sugg' = fee
                   /\ seen' = [seen EXCEPT !.prio = prio, !.block = block,
                                            !.gas_price = gas_price]
                   /\ tx' = setdefault(setdefault(tx, "maxFeePerGas", fee.max_fee),
                                       "maxPriorityFeePerGas", fee.max_priority)
                   /\ pc' = "tx_gas" /\ exc' = exc
    /\ UNCHANGED <<env, chain, ctx, rcpt, owner, built, profit, log, signed>>
    /\ UNCHANGED <<pathVars, calcVars, sideVars>>

\* send_tx: estimate_gas
TxEstimateGas ==
    /\ pc = "tx_gas"
    /\ \E gas \in GasOutcomes :
          /\ pc' = AfterEstimateGas(gas).pc
          /\ exc' = AfterEstimateGas(gas).exc
          /\ tx' = IF gas.ok THEN SetItem(tx, "gas", gas.val) ELSE tx
          /\ log' = Append(log, <<ctx, IF gas.ok THEN "estimate_gas"
                                                 ELSE "estimate_gas failed">>)
    /\ UNCHANGED <<env, chain, ctx, sugg, seen, rcpt, owner, built, profit, signed>>
    /\ UNCHANGED <<pathVars, calcVars, sideVars>>

\* send_tx: sign_transaction and send_raw_transaction
TxSend ==
    /\ pc = "tx_send"
    /\ \E ok \in BOOLEAN :
          IF ok
          THEN /\ pc' = AfterBroadcast(ctx) /\ exc' = exc
               /\ log' = log \o <<<<ctx, "sign_transaction">>,
                                  <<ctx, "send_raw_transaction">>>>
          ELSE /\ Raise("send_raw_transaction")
               /\ log' = log \o <<<<ctx, "sign_transaction">>,
                                  <<ctx, "send_raw_transaction failed">>>>
    /\ signed' = Append(signed, [call |-> ctx, signer |-> Signer(ctx),
                                 nonce |-> tx.nonce, to |-> tx.to])
    /\ UNCHANGED <<env, chain, ctx, tx, sugg, seen, rcpt, owner, built, profit>>
    /\ UNCHANGED <<pathVars, calcVars, sideVars>>

\* send_tx: wait_for_transaction_receipt, and the return to the caller
TxWait ==
    /\ pc = "tx_wait"
    /\ \/ /\ \E r \in ReceiptOutcomes : rcpt' = IF ctx = "flash" THEN r ELSE rcpt
          /\ chain' = [chain EXCEPT ![Signer(ctx)] = @ + 1]
          /\ pc' = ReturnTo(ctx)
          /\ exc' = exc
          /\ log' = Append(log, <<ctx, "receipt">>)
       \/ /\ Raise("wait_for_transaction_receipt")
          /\ log' = Append(log, <<ctx, "wait_for_transaction_receipt failed">>)
          /\ UNCHANGED <<rcpt, chain>>
    /\ tx' = NoTx /\ sugg' = NoFees /\ seen' = NoSeen
    /\ UNCHANGED <<env, ctx, owner, built, profit, signed>>
    /\ UNCHANGED <<pathVars, calcVars, sideVars>>

\* main: split_via_goldstem(w3, 0.00002, root, goldstem)
MainSplit ==
    /\ pc = "main_split"
    /\ CallSendTx("dust_split", SplitTx(Dust00002))
    /\ UNCHANGED <<exc, env, chain, rcpt, owner, built, profit, signed>>
    /\ UNCHANGED <<pathVars, calcVars, sideVars>>

\* main: if flash_executor, flashloan_and_arb, which returns at once when
\* the executor, the asset or a positive amount is not configured
MainFlash ==
    /\ pc = "main_flash"
    /\ pc' = IF /\ env.FLASH_EXECUTOR_ADDRESS
                /\ env.FLASH_ASSET # <<>>
                /\ env.FLASH_AMOUNT_WEI # <<>>
             THEN "fa_owner" ELSE "done"
    /\ UNCHANGED <<exc, env, chain, ctx, tx, sugg, seen, rcpt, owner, built, profit, log,
                   signed>>
    /\ UNCHANGED <<pathVars, calcVars, sideVars>>

\* flashloan_and_arb: the owner() read of the executor
FaOwner ==
    /\ pc = "fa_owner"
    /\ \E o \in OwnerOutcomes :
          /\ owner' = o
          /\ pc' = IF o # "error" /\ OwnerIsRoot(o) THEN "fa_build" ELSE "done"
    /\ log' = Append(log, <<"flash", "executor.owner">>)
    /\ UNCHANGED <<exc, env, chain, ctx, tx, sugg, seen, rcpt, built, profit, signed>>
    /\ UNCHANGED <<pathVars, calcVars, sideVars>>

\* flashloan_and_arb: encode_flash_params_for_roundtrip inside its try
FaBuild ==
    /\ pc = "fa_build"
    /\ \E quote \in QuoteOutcomes :
          LET r == encode_flash_params_for_roundtrip(
                       env.FLASH_ASSET, USDC, 500, 500, env.FLASH_AMOUNT_WEI,
                       PremiumEstimateWei, 30, quote)
          IN  /\ built' = r
              /\ pc' = AfterBuild(r.exc)
              /\ log' = IF r.quoted
                        THEN Append(log, <<"flash", "quoteExactInput">>)
                        ELSE log
    /\ UNCHANGED <<exc, env, chain, ctx, tx, sugg, seen, rcpt, owner, profit, signed>>
    /\ UNCHANGED <<pathVars, calcVars, sideVars>>

\* flashloan_and_arb: build_transaction for runSimpleFlash, then send_tx
FaSubmit ==
    /\ pc = "fa_submit"
    /\ \E pre \in PrefillOutcomes :
          CallSendTx("flash",
                     [k \in {"from", "to", "data"} \cup (DOMAIN pre \ {"none"}) |->
                         CASE k = "from" -> "root"
                           [] k = "to" -> "executor"
                           [] k = "data" -> <<"runSimpleFlash", env.FLASH_ASSET,
                                              env.FLASH_AMOUNT_WEI, built.params>>
                           [] OTHER -> pre[k]])
    /\ UNCHANGED <<exc, env, chain, rcpt, owner, built, profit, signed>>
    /\ UNCHANGED <<pathVars, calcVars, sideVars>>

\* flashloan_and_arb: the FlashCompleted event is decoded from the receipt
\* and the profit is routed to Goldstem or not
FaDecode ==
    /\ pc = "fa_decode"
    /\ profit' = DecodedProfit(rcpt)
    /\ IF ShouldRoute(profit', env.MIN_PROFIT_WEI)
       THEN /\ pc' = "tx_nonce" /\ ctx' = "route"
            /\ tx' = SplitTx(Dust00001) /\ sugg' = NoFees
            /\ seen' = Seen(SplitTx(Dust00001))
            /\ log' = log \o <<<<"flash", "process_receipt">>, <<"route", "send_tx">>>>
       ELSE /\ pc' = "done"
            /\ log' = Append(log, <<"flash", "process_receipt">>)
            /\ UNCHANGED <<ctx, tx, sugg, seen>>
    /\ UNCHANGED <<exc, env, chain, rcpt, owner, built, signed>>
    /\ UNCHANGED <<pathVars, calcVars, sideVars>>

Next ==
    \/ Main \/ MainExecOwner \/ MainBalances \/ MainSafety
    \/ TxNonce \/ TxFees \/ TxEstimateGas \/ TxSend \/ TxWait
    \/ MainSplit \/ MainFlash
    \/ FaOwner \/ FaBuild \/ FaSubmit \/ FaDecode

Spec == ProcInit /\ [][Next]_vars

\* every statement of the process but the wait for a receipt: a statement
\* that can run does run, and a transport call other than the wait for a
\* receipt is answered with a value or an error
Answered ==
    \/ Main \/ MainExecOwner \/ MainBalances \/ MainSafety
    \/ TxNonce \/ TxFees \/ TxEstimateGas \/ TxSend
    \/ MainSplit \/ MainFlash
    \/ FaOwner \/ FaBuild \/ FaSubmit \/ FaDecode

\* the process where the receipt of a broadcast transaction may never be
\* delivered: send_tx passes no timeout of its own to the wait
SpecLive == ProcInit /\ [][Next]_vars /\ WF_vars(Answered)

----------------------------------------------------------------------------
(* Two runs of the quote-and-encode step of flashloan_and_arb with the     *)
(* same environment, the quoter answering each on its own                  *)

PairInit ==
    /\ pc = "off" /\ exc = "none"
    /\ env \in EnvValues
    /\ chain = NoChain /\ ctx = "none" /\ tx = NoTx /\ sugg = NoFees
    /\ seen = NoSeen /\ rcpt = NoRcpt /\ owner = "unread" /\ profit = 0
    /\ log = <<>> /\ signed = <<>>
    /\ built = NotBuilt /\ built2 = NotBuilt /\ twin = NoTwin
    /\ PathOff /\ CalcOff

PairBuild ==
    /\ built.exc = "pending"
    /\ \E quote \in QuoteOutcomes, quote2 \in QuoteOutcomes :
          /\ built' = encode_flash_params_for_roundtrip(
                          env.FLASH_ASSET, USDC, 500, 500, env.FLASH_AMOUNT_WEI,
                          PremiumEstimateWei, 30, quote)
          /\ built2' = encode_flash_params_for_roundtrip(
                           env.FLASH_ASSET, USDC, 500, 500, env.FLASH_AMOUNT_WEI,
                           PremiumEstimateWei, 30, quote2)
    /\ UNCHANGED <<pc, exc, env, chain, ctx, tx, sugg, seen, rcpt, owner, profit, log,
                   signed, twin>>
    /\ UNCHANGED <<pathVars, calcVars>>

PairNext == PairBuild

SpecPair == PairInit /\ [][PairNext]_vars

\* C11: two runs that differ only in the amountOut the quote call returns,
\* both succeeding, build the same FlashParams and the same minimum output.
C11_ParamsIgnoreQuote ==
    (built.exc = "none" /\ built2.exc = "none") =>
        /\ built.params = built2.params
        /\ built.min_out = built2.min_out

C11_Witness ==
    /\ built.exc = "none" /\ built2.exc = "none"
    /\ built.quoted_out # built2.quoted_out
    /\ built.params = built2.params

----------------------------------------------------------------------------
(* The minimum-output computation applied to amounts of wei *)

WeiAmountValues ==
    {IntToWei(n) : n \in 0..MaxAmount}
    \cup {<<0, 100>>, <<0, 0, 0, 0, 100>>, <<9999, 9999, 9999>>}
WeiPremiumValues == {<<>>, <<1>>, PremiumEstimateWei}
WeiBufferValues == {0, 30, 10000}

WeiInit ==
    /\ amount_in_wei \in WeiAmountValues
    /\ premium_estimate_wei \in WeiPremiumValues
    /\ safety_buffer_bps \in WeiBufferValues
    /\ min_out = <<>> /\ computed = FALSE
    /\ PathOff /\ ProcOff /\ SideOff

ComputeMinOutWei ==
    /\ ~computed
    /\ min_out' = MinOutWei(amount_in_wei, premium_estimate_wei, safety_buffer_bps)
    /\ computed' = TRUE
    /\ UNCHANGED <<amount_in_wei, premium_estimate_wei, safety_buffer_bps,
                   pathVars, procVars, sideVars>>

WeiNext == ComputeMinOutWei

SpecWei == WeiInit /\ [][WeiNext]_vars

\* the digits of an amount of wei are digits, the last one not zero
IsWei(a) ==
    /\ \A i \in 1..Len(a) : a[i] \in 0..9999
    /\ a # <<>> => a[Len(a)] # 0

\* C12, as claimed: for amountIn 10^18, premium 0 and a buffer of 30 bps
\* the minimum output is 1000300000000000000, that is 1.0003 * 10^18.
C12_AsClaimed ==
    (computed /\ amount_in_wei = <<0, 0, 0, 0, 100>> /\ premium_estimate_wei = <<>>
        /\ safety_buffer_bps = 30)
        => min_out = <<0, 0, 0, 300, 100>>

\* C12, amended: for amountIn 10^18, premium 0 and a buffer of 30 bps the
\* minimum output is 1003000000000000000, that is 1.003 * 10^18 (30 bps are
\* 0.3 %); with a buffer of 10000 bps it is 2 * 10^18; every minimum output
\* is a well-formed amount.
C12_MinOutAtScale ==
    computed =>
        /\ IsWei(min_out)
        /\ (amount_in_wei = <<0, 0, 0, 0, 100>> /\ premium_estimate_wei = <<>>
               /\ safety_buffer_bps = 30)
              => min_out = <<0, 0, 0, 3000, 100>>
        /\ (amount_in_wei = <<0, 0, 0, 0, 100>> /\ premium_estimate_wei = <<>>
               /\ safety_buffer_bps = 10000)
              => min_out = <<0, 0, 0, 0, 200>>

C12_Witness ==
    /\ computed /\ amount_in_wei = <<0, 0, 0, 0, 100>>
    /\ premium_estimate_wei = <<>> /\ safety_buffer_bps = 30
    /\ min_out = <<0, 0, 0, 3000, 100>>

----------------------------------------------------------------------------
(* Two processes calling send_tx for the root account at the same time.    *)
(* twin.count is the account's transaction count on chain, twin.mempool    *)
(* the broadcast transactions not yet mined, twin.mined the mined ones,    *)
(* twin.proc[p] the position of process p inside send_tx.                  *)

TwoProcs == {1, 2}

Idle == [pc |-> "idle", tx |-> NoTx, intent |-> FALSE, read |-> 0, sent |-> 0,
         signs |-> <<>>]

\* the intents handed to send_tx: with and without a nonce of their own
TwoIntents ==
    { [from |-> "root", to |-> "goldstem"],
      [from |-> "root", to |-> "executor", nonce |-> 7] }

TwoInit ==
    /\ ProcOff /\ PathOff /\ CalcOff
    /\ built2 = NotBuilt
    /\ twin = [count |-> 0, mempool |-> {}, mined |-> {}, proc |-> <<Idle, Idle>>]

TwoUnchanged == UNCHANGED <<pathVars, calcVars, procVars, built2>>

\* a process calls send_tx(w3, tx, signer) with signer = root
TwoSendTx(p) ==
    /\ twin.proc[p].pc = "idle"
    /\ twin.proc[p].sent < MaxSends
    /\ \E intent \in TwoIntents :
          twin' = [twin EXCEPT !.proc[p].pc = "tx_nonce", !.proc[p].tx = intent,
                               !.proc[p].intent = "nonce" \in DOMAIN intent]
    /\ TwoUnchanged

\* send_tx: tx["nonce"] = get_transaction_count(signer.address), chainId
TwoNonce(p) ==
    /\ twin.proc[p].pc = "tx_nonce"
    /\ \E ok \in BOOLEAN :
          IF ok
          THEN twin' = [twin EXCEPT
                          !.proc[p].tx = SetItem(AssignNonce(@, twin.count), "chainId", 42161),
                          !.proc[p].read = twin.count,
                          !.proc[p].pc = "tx_send"]
          ELSE twin' = [twin EXCEPT !.proc[p].pc = "raised"]
    /\ TwoUnchanged

\* send_tx: fees and gas, sign_transaction, send_raw_transaction.  The node
\* may refuse the broadcast; it cannot accept a nonce below the count.
TwoSign(p) ==
    /\ twin.proc[p].pc = "tx_send"
    /\ LET P == twin.proc[p]
           sig == [nonce |-> P.tx.nonce, read |-> P.read,
                   intent |-> P.intent]
       IN  \E out \in {"failed before signing", "refused", "accepted"} :
              CASE out = "failed before signing" ->
                      twin' = [twin EXCEPT !.proc[p].pc = "raised"]
                [] out = "refused" ->
                      twin' = [twin EXCEPT !.proc[p].pc = "raised",
                                           !.proc[p].signs = Append(@, sig)]
                [] out = "accepted" ->
                      /\ P.tx.nonce >= twin.count
                      /\ twin' = [twin EXCEPT
                                     !.proc[p].pc = "tx_wait",
                                     !.proc[p].signs = Append(@, sig),
                                     !.mempool = @ \cup {<<p, P.tx.nonce>>}]
    /\ TwoUnchanged

\* the chain mines a broadcast transaction whose nonce is the account's
\* count; the transactions of the same nonce are dropped
TwoMine ==
    /\ \E m \in twin.mempool :
          /\ m[2] = twin.count
          /\ twin' = [twin EXCEPT !.count = @ + 1,
                                  !.mined = @ \cup {m},
                                  !.mempool = {x \in @ : x[2] # m[2]}]
    /\ TwoUnchanged

\* send_tx: wait_for_transaction_receipt, and the return
TwoWait(p) ==
    /\ twin.proc[p].pc = "tx_wait"
    /\ \/ /\ <<p, twin.proc[p].tx.nonce>> \in twin.mined
          /\ twin' = [twin EXCEPT !.proc[p].pc = "idle", !.proc[p].tx = NoTx,
                                  !.proc[p].sent = @ + 1]
       \/ twin' = [twin EXCEPT !.proc[p].pc = "raised"]
    /\ TwoUnchanged

TwoNext ==
    \/ \E p \in TwoProcs : TwoSendTx(p)
    \/ \E p \in TwoProcs : TwoNonce(p)
    \/ \E p \in TwoProcs : TwoSign(p)
    \/ TwoMine
    \/ \E p \in TwoProcs : TwoWait(p)

SpecTwo == TwoInit /\ [][TwoNext]_vars

----------------------------------------------------------------------------
(* Properties of the minimum output *)

\* x is repay_target plus the buffer rounded down, stated without division:
\* 10000 * (x - repay_target) <= repay_target * bps < 10000 * (x - repay_target + 1)
IsBuffered(x, repay_target, bps) ==
    /\ 10000 * (x - repay_target) <= repay_target * bps
    /\ repay_target * bps < 10000 * (x - repay_target) + 10000

\* C4: the computed minimum output is max(repayTarget + floor(repayTarget *
\* bufferBps / 10000), 1) with repayTarget = amountBorrowed + estimatedPremium:
\* it is the buffered repay target when that is at least 1, and 1 when the
\* buffered repay target is below 1; and minOut(1000000, 0, 30) = 1003000.
\* The computation on amounts of wei gives the same value.
C4_MinOutFormula ==
    computed =>
        LET r == amount_in_wei + premium_estimate_wei
            b == safety_buffer_bps
        IN  /\ \/ min_out >= 1 /\ IsBuffered(min_out, r, b)
               \/ min_out = 1 /\ r * b < 10000 * (1 - r)
            /\ (amount_in_wei = 1000000 /\ premium_estimate_wei = 0 /\ b = 30)
                   => min_out = 1003000
            /\ (amount_in_wei >= 0 /\ premium_estimate_wei >= 0 /\ b >= 0)
                   => WeiToInt(MinOutWei(IntToWei(amount_in_wei),
                                         IntToWei(premium_estimate_wei), b)) = min_out

C4_Witness ==
    /\ amount_in_wei = 1000000 /\ premium_estimate_wei = 0
    /\ safety_buffer_bps = 30 /\ computed /\ min_out = 1003000

\* C5: the minimum output is never less than 1, whatever the borrowed
\* amount, the premium estimate and the buffer are.
C5_MinOutAtLeastOne == computed => min_out >= 1

C5_Witness ==
    /\ amount_in_wei = 0 /\ premium_estimate_wei = 0 /\ computed /\ min_out = 1

----------------------------------------------------------------------------
(* Properties of the process *)

\* the calls of send_tx made inside flashloan_and_arb
FlashCalls == {"flash", "route"}

\* no call of send_tx was made inside flashloan_and_arb, and nothing was
\* signed there
NoFlashSubmission ==
    /\ \A i \in 1..Len(log) :
          log[i][1] \in FlashCalls => log[i] = <<"flash", "executor.owner">>
                                      \/ log[i] = <<"flash", "quoteExactInput">>
    /\ \A i \in 1..Len(signed) : signed[i].call \notin FlashCalls

\* C1: when the owner() read of the executor returns another address than
\* root's, or fails, flashloan_and_arb returns without a quote request and
\* without a call of send_tx: nothing is signed or broadcast in that run.
C1_OwnerMismatchAborts ==
    owner \in {"other", "error"} =>
        /\ pc = "done" /\ exc = "none"
        /\ NoFlashSubmission
        /\ ~Logged(<<"flash", "quoteExactInput">>)
        /\ built = NotBuilt

C1_Witness ==
    /\ owner = "other" /\ pc = "done"
    /\ Logged(<<"flash", "executor.owner">>)

\* C2: when the receipt of the flash-execution transaction has a failed
\* status, neither the FlashCompleted event is decoded nor the routing
\* transaction submitted.
C2_RevertedStopsRun ==
    (Logged(<<"flash", "receipt">>) /\ rcpt.status = 0) =>
        /\ ~Logged(<<"flash", "process_receipt">>)
        /\ ~Logged(<<"route", "send_tx">>)

\* C3: once the profit is decoded, the routing transaction has been handed
\* to send_tx exactly once when profit > MIN_PROFIT_WEI and never otherwise,
\* equality included; it is broadcast at most once, and only when handed in;
\* profit 500 with threshold 400 routes, 300 and 400 with threshold 400 do not.
C3_RoutesIffProfitExceeds ==
    Logged(<<"flash", "process_receipt">>) =>
        /\ Count(<<"route", "send_tx">>)
              = IF profit > env.MIN_PROFIT_WEI THEN 1 ELSE 0
        /\ Count(<<"route", "send_raw_transaction">>) <= Count(<<"route", "send_tx">>)
        /\ (profit = 500 /\ env.MIN_PROFIT_WEI = 400)
              => Count(<<"route", "send_tx">>) = 1
        /\ (profit \in {300, 400} /\ env.MIN_PROFIT_WEI = 400)
              => Count(<<"route", "send_tx">>) = 0

C3_Witness ==
    /\ profit = 500 /\ env.MIN_PROFIT_WEI = 400
    /\ Count(<<"route", "send_tx">>) = 1
    /\ Logged(<<"route", "receipt">>) /\ pc = "done"

\* C8: when estimate_gas fails in a call of send_tx, the exception leaves
\* send_tx and that transaction is not signed, not broadcast and not waited
\* for.
C8_GasFailureStopsSend ==
    \A c \in {"seed_to_root", "dust_split", "flash", "route"} :
        Logged(<<c, "estimate_gas failed">>) =>
            /\ pc = "raised" /\ exc = "estimate_gas" /\ ctx = c
            /\ log[Len(log)] = <<c, "estimate_gas failed">>
            /\ ~Logged(<<c, "sign_transaction">>)
            /\ ~Logged(<<c, "send_raw_transaction">>)
            /\ ~Logged(<<c, "receipt">>)
            /\ \A i \in 1..Len(signed) : signed[i].call # c

C8_Witness ==
    /\ Logged(<<"flash", "estimate_gas failed">>) /\ pc = "raised"

\* C9: when encode_flash_params_for_roundtrip fails, in the path encoding or
\* in the quote call, flashloan_and_arb returns normally and no call of
\* send_tx is made in it: no flash execution and no routing.
C9_BuildFailureContained ==
    built.exc \notin {"pending", "none"} =>
        /\ pc = "done" /\ exc = "none"
        /\ NoFlashSubmission

C9_Witness ==
    /\ built.exc = "ContractLogicError" /\ built.quoted /\ pc = "done"

\* C10: when the FlashCompleted event is absent from the receipt or cannot
\* be decoded, profit is 0 and no routing transaction is submitted, whatever
\* the minimum-profit threshold is.
C10_NoEventNoRoute ==
    (Logged(<<"flash", "process_receipt">>)
        /\ (~rcpt.decodable \/ rcpt.evts = <<>>)) =>
        /\ profit = 0
        /\ ~Logged(<<"route", "send_tx">>)

\* entry a is in the log before entry b
Before(a, b) ==
    \E i \in 1..Len(log), j \in 1..Len(log) : i < j /\ log[i] = a /\ log[j] = b

SendTxCalls == {"seed_to_root", "dust_split", "flash", "route"}

\* the calls whose transaction is broadcast and has no receipt yet
InFlight ==
    {c \in SendTxCalls :
        Logged(<<c, "send_raw_transaction">>) /\ ~Logged(<<c, "receipt">>)}

\* C14: at most one broadcast transaction awaits its receipt, and while one
\* does the process is in the receipt wait of that very send_tx call (or
\* was ended by the exception of that wait): nothing else is broadcast
\* before the receipt is observed.
C14_OneInFlight ==
    /\ Cardinality(InFlight) <= 1
    /\ \A c \in InFlight :
          \/ pc = "tx_wait" /\ ctx = c
          \/ /\ pc = "raised" /\ exc = "wait_for_transaction_receipt" /\ ctx = c
             /\ log[Len(log)] = <<c, "wait_for_transaction_receipt failed">>

C14_Witness ==
    /\ InFlight = {"route"} /\ pc = "tx_wait"
    /\ Logged(<<"flash", "receipt">>)

\* C15: in one run the owner() read, the quote call, the flash-execution
\* broadcast and the routing broadcast each happen at most once, failed
\* attempts counted, and so does every call of send_tx.
C15_NoRetry ==
    /\ Count(<<"flash", "executor.owner">>) <= 1
    /\ Count(<<"flash", "quoteExactInput">>) <= 1
    /\ \A c \in SendTxCalls :
          /\ Count(<<c, "send_tx">>) <= 1
          /\ Count(<<c, "get_transaction_count">>) <= 1
          /\ Count(<<c, "estimate_gas">>) + Count(<<c, "estimate_gas failed">>) <= 1
          /\ Count(<<c, "send_raw_transaction">>)
                + Count(<<c, "send_raw_transaction failed">>) <= 1
    /\ Count(<<"flash", "process_receipt">>) <= 1

C15_Witness ==
    /\ pc = "done"
    /\ built.exc = "ContractLogicError"
    /\ Count(<<"flash", "quoteExactInput">>) = 1

\* the running send_tx has signed its transaction, which is tx
SignedTx == "gas" \in DOMAIN tx /\ Logged(<<ctx, "sign_transaction">>)

\* the base fee and the tip suggest_fees works from: the block's base fee,
\* or the gas price when the block has none; the hint, or the fallback tip
BaseFee ==
    IF seen.block.hasBaseFee THEN seen.block.baseFeePerGas ELSE seen.gas_price.val

Tip == IF seen.prio.ok THEN seen.prio.val ELSE FallbackTip

C18_RootSigns ==
    /\ \A i \in 1..Len(signed) :
          /\ signed[i].to \in {"executor", "goldstem"} => signed[i].signer = "root"
          /\ signed[i].call \in FlashCalls =>
                signed[i].signer = "root" /\ owner = "root"
    /\ (ctx \in FlashCalls /\ "from" \in DOMAIN tx) => tx.from = "root"

C18_Witness ==
    /\ \E i \in 1..Len(signed) : signed[i].call = "flash" /\ signed[i].to = "executor"
    /\ \E i \in 1..Len(signed) : signed[i].call = "route" /\ signed[i].to = "goldstem"

\* C20: when the owner() read of Goldstem in main returns another address
\* than root's, main returns without a call of send_tx: no seed-to-root
\* transfer, no transfer to Goldstem, no flashloan_and_arb.
C20_GoldstemMismatchStops ==
    Logged(<<"main", "goldstem.owner", "other">>) =>
        /\ pc = "done" /\ exc = "none"
        /\ signed = <<>>
        /\ \A i \in 1..Len(log) : log[i][1] = "main"
        /\ owner = "unread"

C20_Witness ==
    /\ Logged(<<"main", "goldstem.owner", "other">>) /\ pc = "done"

\* C17: a transaction signed by send_tx carries as nonce the count read in
\* that call, also when the intent carried a nonce, and no process signs
\* two transactions with one nonce, whatever another process does meanwhile.
C17_NonceIsCountRead ==
    \A p \in 1..Len(twin.proc) :
        LET signs == twin.proc[p].signs
        IN  /\ \A i \in 1..Len(signs) : signs[i].nonce = signs[i].read
            /\ \A i \in 1..Len(signs), j \in 1..Len(signs) :
                  i # j => signs[i].nonce # signs[j].nonce

\* two processes have signed with the same nonce, one of them from an
\* intent with a nonce of its own, and one of them went on to sign again
C17_Witness ==
    /\ Len(twin.proc) = 2
    /\ \E i \in 1..Len(twin.proc[1].signs), j \in 1..Len(twin.proc[2].signs) :
          /\ twin.proc[1].signs[i].nonce = twin.proc[2].signs[j].nonce
          /\ twin.proc[1].signs[i].intent
    /\ Len(twin.proc[2].signs) = 2

Terminal == pc \in {"done", "raised"}

\* the position of the process in the text of main and of the functions it
\* calls, numbered in the order of the text
Position ==
    LET base == CASE ctx = "seed_to_root" -> 10
                  [] ctx = "dust_split" -> 20
                  [] ctx = "flash" -> 40
                  [] OTHER -> 50
    IN  CASE pc = "main" -> 0
          [] pc = "main_exec_owner" -> 1
          [] pc = "main_balances" -> 2
          [] pc = "main_safety" -> 3
          [] pc = "tx_nonce" -> base + 1
          [] pc = "tx_fees" -> base + 2
          [] pc = "tx_gas" -> base + 3
          [] pc = "tx_send" -> base + 4
          [] pc = "tx_wait" -> base + 5
          [] pc = "main_split" -> 16
          [] pc = "main_flash" -> 26
          [] pc = "fa_owner" -> 30
          [] pc = "fa_build" -> 31
          [] pc = "fa_submit" -> 32
          [] pc = "fa_decode" -> 46
          [] OTHER -> 100

\* C19: no step of a run goes back in the text (there is no loop); the
\* profit is decoded and the routing started only after the receipt of the
\* flash-execution transaction was delivered; and every run either reaches
\* a terminal state or stays in one receipt wait forever.
C19_TerminatesOrBlocked ==
    /\ [][Position' > Position]_vars
    /\ [](Logged(<<"flash", "process_receipt">>) \/ Logged(<<"route", "send_tx">>)
            => Logged(<<"flash", "receipt">>))
    /\ [][pc = "tx_wait" /\ pc' # "tx_wait" =>
            log' = Append(log, <<ctx, "receipt">>) \/ pc' = "raised"]_vars
    /\ (<>Terminal \/ <>[](pc = "tx_wait"))

C19_Witness ==
    /\ pc = "done"
    /\ \A c \in SendTxCalls : Logged(<<c, "receipt">>)

----------------------------------------------------------------------------
(* Properties of encode_v3_path *)

\* what the claim calls a valid swap path
ValidPath(toks, fs) ==
    /\ Len(toks) >= 2 /\ Len(fs) = Len(toks) - 1
    /\ \A i \in 1..Len(toks) : ValidAddr(toks[i])
    /\ \A i \in 1..Len(fs) : FeeFits(fs[i])

\* reading an encoded path back by field width: the k-th address, as
\* hexadecimal digits, and the k-th fee, as a big-endian integer
AddrAt(bytes, k) ==
    [i \in 1..40 |->
        LET byte == bytes[23 * (k - 1) + ((i + 1) \div 2)]
        IN  IF i % 2 = 1 THEN byte \div 16 ELSE byte % 16]

FeeAt(bytes, k) ==
    LET o == 23 * (k - 1) + 20
    IN  65536 * bytes[o + 1] + 256 * bytes[o + 2] + bytes[o + 3]

\* C6: a valid path of n addresses encodes, without error, to 20n + 3(n-1)
\* bytes, every byte in 0..255, from which the addresses and the fees are
\* read back by field width in order; [A, B, A] with fees [500, 500]
\* encodes to 66 bytes.
C6_PathRoundTrip ==
    (encoded.exc # "pending" /\ ValidPath(tokens, fees)) =>
        LET n == Len(tokens)
        IN  /\ encoded.exc = "none"
            /\ Len(encoded.ret) = 20 * n + 3 * (n - 1)
            /\ \A i \in 1..Len(encoded.ret) : encoded.ret[i] \in 0..255
            /\ \A k \in 1..n : AddrAt(encoded.ret, k) = tokens[k]
            /\ \A k \in 1..(n - 1) : FeeAt(encoded.ret, k) = fees[k]
            /\ (tokens = <<WETH, USDC, WETH>> /\ fees = <<500, 500>>)
                   => Len(encoded.ret) = 66

C6_Witness ==
    /\ tokens = <<WETH, USDC, WETH>> /\ fees = <<500, 500>>
    /\ encoded.exc # "pending" /\ encoded.exc = "none" /\ Len(encoded.ret) = 66

\* C7: with fewer than two addresses, or a number of fees other than the
\* number of addresses minus one, encode_v3_path fails with the assertion
\* error, returns nothing and has written no byte.
C7_MalformedPathFails ==
    (encoded.exc # "pending" /\ (Len(tokens) < 2 \/ Len(fees) # Len(tokens) - 1)) =>
        /\ encoded.exc = "AssertionError"
        /\ encoded.ret = <<>>
        /\ encoded.out = <<>>

C7_Witness ==
    /\ Len(tokens) = 1 /\ Len(fees) = 0
    /\ encoded.exc # "pending" /\ encoded.exc = "AssertionError"

====
